---- MODULE Spec2Model ----
(***************************************************************************)
(* rules-doctor: marker merge (upsertManagedSection), the rules document,  *)
(* target planning                                                         *)
(* (buildTargetPlans, getUniqueWritePlans) and the sync / check commands   *)
(* of src/src/index.js, release 0.3.0.                                     *)
(*                                                                         *)
(* The document functions (parseRulesText, normalizeRules, stringifyRules) *)
(* are explored on their own under SpecDoc.                                *)
(*                                                                         *)
(* Text is a sequence of tokens.  A token is one character of the file:    *)
(* "\n" is the newline, a marker (sentinel) string is one token, any other *)
(* token stands for a piece of text without whitespace.                    *)
(***************************************************************************)
EXTENDS Integers, Sequences, FiniteSets, TLC

VARIABLES
  disk,      \* resolved path -> text of the file, or NoFile
  rulesDoc,  \* the document .agentrules/rules.yaml as the user wrote it
  last,      \* what the last CLI invocation did: options, exit code, disk events
  existing,  \* marker merge: the host text
  content,   \* marker merge: the new managed content
  results,   \* marker merge: the texts returned by successive applications
  docInput,  \* document functions: the text or tree handed to the function
  docOutput  \* document functions: what the function returned

vars == <<disk, rulesDoc, last, existing, content, results, docInput, docOutput>>

---------------------------------------------------------------------------
(* Bounds of the explored inputs *)

MaxHostLen == 5
MaxContentLen == 3
MaxApplications == 3
MaxScalarLen == 2
MaxDocLines == 3
MaxFailAt == 3
MaxDiffLen == 3
MaxLongLines == 61

---------------------------------------------------------------------------
(* Text primitives (JavaScript String methods used by the source) *)

NL == "\n"

IsSpace(t) == t \in {NL, " "}

Min(S) == CHOOSE m \in S : \A n \in S : m <= n
Max(S) == CHOOSE m \in S : \A n \in S : m >= n

\* String.prototype.indexOf(token, from): 0-based position, -1 when absent
indexOf(s, t, from) ==
  LET I == {i \in from..(Len(s) - 1) : s[i + 1] = t}
  IN IF I = {} THEN -1 ELSE Min(I)

\* String.prototype.slice(a, b) with 0 <= a, b <= length
slice(s, a, b) == SubSeq(s, a + 1, b)

RECURSIVE trimStart(_)
trimStart(s) ==
  IF s = <<>> \/ ~IsSpace(Head(s)) THEN s ELSE trimStart(Tail(s))

RECURSIVE trimEnd(_)
trimEnd(s) ==
  IF s = <<>> \/ ~IsSpace(s[Len(s)]) THEN s ELSE trimEnd(SubSeq(s, 1, Len(s) - 1))

trim(s) == trimStart(trimEnd(s))

\* run = number of newlines already emitted or dropped just before s
RECURSIVE collapseFrom(_, _)
collapseFrom(s, run) ==
  IF s = <<>> THEN <<>>
  ELSE IF Head(s) = NL
       THEN IF run >= 2 THEN collapseFrom(Tail(s), run)
            ELSE <<NL>> \o collapseFrom(Tail(s), run + 1)
       ELSE <<Head(s)>> \o collapseFrom(Tail(s), 0)

\* text.replace(/\n{3,}/g, "\n\n")
collapseNewlines(s) == collapseFrom(s, 0)

Count(s, t) == Cardinality({i \in 1..Len(s) : s[i] = t})

RECURSIVE SeqsUpTo(_, _)
SeqsUpTo(A, n) ==
  IF n = 0 THEN {<<>>}
  ELSE LET shorter == SeqsUpTo(A, n - 1)
       IN shorter \cup {Append(s, a) : s \in {t \in shorter : Len(t) = n - 1}, a \in A}

---------------------------------------------------------------------------
(* Marker merge *)

\* codex / opencode markers
MarkerBegin == "<!-- RULES_DOCTOR:BEGIN -->"
MarkerEnd == "<!-- RULES_DOCTOR:END -->"

\* variant that appends after the host text as it is, trailing whitespace kept
upsertManagedSection_noTrimEnd(ex, c, beginMarker, endMarker) ==
  LET start == indexOf(ex, beginMarker, 0)
      end == IF start >= 0 THEN indexOf(ex, endMarker, start) ELSE -1
  IN IF start >= 0 /\ end > start
     THEN collapseNewlines(slice(ex, 0, start + 1) \o <<NL>> \o trim(c) \o <<NL>>
                           \o slice(ex, end, Len(ex)))
     ELSE (IF ex # <<>> THEN ex \o <<NL, NL>> ELSE <<>>)
          \o <<beginMarker, NL>> \o trim(c) \o <<NL, endMarker, NL>>

upsertManagedSection(ex, c, beginMarker, endMarker) ==
  LET start == indexOf(ex, beginMarker, 0)
      end == IF start >= 0 THEN indexOf(ex, endMarker, start) ELSE -1
  IN IF start >= 0 /\ end > start
     THEN LET before == slice(ex, 0, start + Len(<<beginMarker>>))
              after == slice(ex, end, Len(ex))
          IN collapseNewlines(before \o <<NL>> \o trim(c) \o <<NL>> \o after)
     ELSE LET base == trimEnd(ex)
              prefix == IF base # <<>> THEN base \o <<NL, NL>> ELSE <<>>
          IN prefix \o <<beginMarker, NL>> \o trim(c) \o <<NL, endMarker, NL>>

HostAlphabet == {MarkerBegin, MarkerEnd, NL, "x"}
ContentAlphabet == {NL, "x"}

HostTexts == SeqsUpTo(HostAlphabet, MaxHostLen)
ContentTexts == SeqsUpTo(ContentAlphabet, MaxContentLen)

---------------------------------------------------------------------------
(* Paths: a path is a sequence of segments; "/" as first segment = absolute *)

Root == <<"/", "proj">>

RULES_RELATIVE_PATH == <<".agentrules", "rules.yaml">>
RulesPath == Root \o RULES_RELATIVE_PATH

isAbsolute(p) == p # <<>> /\ p[1] = "/"

RECURSIVE normalizeSegments(_, _)
normalizeSegments(acc, rest) ==
  IF rest = <<>> THEN acc
  ELSE IF Head(rest) = ".."
       THEN normalizeSegments(IF Len(acc) > 1 THEN SubSeq(acc, 1, Len(acc) - 1) ELSE acc,
                              Tail(rest))
       ELSE normalizeSegments(Append(acc, Head(rest)), Tail(rest))

\* path.resolve(rootDir, filePath)
resolve(rootDir, filePath) ==
  IF isAbsolute(filePath) THEN normalizeSegments(<<"/">>, Tail(filePath))
  ELSE normalizeSegments(rootDir, filePath)

resolveInRoot(rootDir, filePath) ==
  IF isAbsolute(filePath) THEN filePath ELSE resolve(rootDir, filePath)

dirname(p) == SubSeq(p, 1, Len(p) - 1)

---------------------------------------------------------------------------
(* Adapter registry *)

CopilotBegin == "<!-- RULES_DOCTOR:COPILOT:BEGIN -->"
CopilotEnd == "<!-- RULES_DOCTOR:COPILOT:END -->"

claude ==
  [id |-> "claude", defaultPath |-> <<"CLAUDE.md">>, management |-> "full",
   markerBegin |-> "", markerEnd |-> ""]
codex ==
  [id |-> "codex", defaultPath |-> <<"AGENTS.md">>, management |-> "marker",
   markerBegin |-> MarkerBegin, markerEnd |-> MarkerEnd]
copilot ==
  [id |-> "copilot", defaultPath |-> <<".github", "copilot-instructions.md">>,
   management |-> "marker", markerBegin |-> CopilotBegin, markerEnd |-> CopilotEnd]
cursor ==
  [id |-> "cursor", defaultPath |-> <<".cursor", "rules", "rules-doctor.mdc">>,
   management |-> "full", markerBegin |-> "", markerEnd |-> ""]
gemini ==
  [id |-> "gemini", defaultPath |-> <<"GEMINI.md">>, management |-> "full",
   markerBegin |-> "", markerEnd |-> ""]
opencode ==
  [id |-> "opencode", defaultPath |-> <<"AGENTS.md">>, management |-> "marker",
   markerBegin |-> MarkerBegin, markerEnd |-> MarkerEnd]

ADAPTERS == <<claude, codex, copilot, cursor, gemini, opencode>>

AdapterIds == {ADAPTERS[i].id : i \in 1..Len(ADAPTERS)}

ADAPTERS_BY_ID(id) == CHOOSE a \in {ADAPTERS[i] : i \in 1..Len(ADAPTERS)} : a.id = id

\* The documents of this model set mission and targets only, so the Workflow,
\* Commands, Done and Approvals sections always render the defaults: each
\* adapter's run of those sections is one constant token (the source's
\* backquotes are left out of the string tokens).
ManagedDefaultSections == "### Workflow ... ### Approvals (defaults)"
ClaudeDefaultSections == "## Workflow ... ## Approvals (defaults)"

renderManagedRulesBody(rules) ==
  <<"## rules-doctor Managed Rules", NL,
    "Generated from .agentrules/rules.yaml. Edit that file, then run rules-doctor sync.",
    NL, NL, "### Mission", NL>>
    \o rules.mission \o <<NL, NL, ManagedDefaultSections, NL>>

render(adapter, rules) ==
  CASE adapter.id = "claude" ->
         <<"# CLAUDE.md", NL, NL, "## Mission", NL>>
           \o rules.mission \o <<NL, NL, ClaudeDefaultSections, NL>>
    [] adapter.id = "copilot" ->
         <<"# Copilot Instructions", NL, NL>> \o renderManagedRulesBody(rules)
    [] adapter.id = "cursor" ->
         <<"---", NL, "description: rules-doctor managed coding rules", NL,
           "alwaysApply: true", NL, "---", NL, NL>>
           \o renderManagedRulesBody(rules)
    [] adapter.id = "gemini" ->
         <<"# GEMINI.md", NL, NL>> \o renderManagedRulesBody(rules)
    [] OTHER -> renderManagedRulesBody(rules)

---------------------------------------------------------------------------
(* The rules document: lines [indent, key, value] of .agentrules/rules.yaml *)
(* A value is a tagged record; a string value holds its text as tokens.     *)

NoValue == [kind |-> "none"]
Undefined == [kind |-> "undefined"]
Null == [kind |-> "null"]
Bool(b) == [kind |-> "bool", b |-> b]
Num(d) == [kind |-> "num", digits |-> d]
Str(s) == [kind |-> "str", s |-> s]
List(items) == [kind |-> "list", items |-> items]
Obj(f) == [kind |-> "obj", f |-> f]

EmptyMap == [x \in {} |-> x]

Put(f, k, v) == [x \in (DOMAIN f) \cup {k} |-> IF x = k THEN v ELSE f[x]]

Get(f, k) == IF k \in DOMAIN f THEN f[k] ELSE Undefined

\* property read on any value: only an object has the properties of the model
Prop(v, k) == IF v.kind = "obj" THEN Get(v.f, k) ELSE Undefined

\* typeof v === "object" && v (objects and arrays, not null)
IsObjectLike(v) == v.kind \in {"obj", "list"}

---------------------------------------------------------------------------
(* Scalars: the characters of a scalar's text that the code tells apart *)

DQ == "\""
SQ == "'"
BS == "\\"
\* words: a run of digits, and a word matching /^(true|false)$/i.  In the
\* texts of the model a backslash is never followed by a word whose first
\* letter is a JSON escape letter (the lower-case words come from String(b)).
DigitWords == {"2", "42"}
BoolWords == {"true", "false", "TRUE"}

\* JSON.stringify of a string: quotes around, '"' and '\' escaped
RECURSIVE jsonEscape(_)
jsonEscape(s) ==
  IF s = <<>> THEN <<>>
  ELSE (IF Head(s) \in {DQ, BS} THEN <<BS, Head(s)>> ELSE <<Head(s)>>)
       \o jsonEscape(Tail(s))

jsonStringify(s) == <<DQ>> \o jsonEscape(s) \o <<DQ>>

\* the body of a JSON string literal from position i on (the opening quote is
\* at position 1): the closing quote must be the last character, a backslash
\* must be followed by '"' or '\' (no other character of the model is a valid
\* escape); a failure is JSON.parse's SyntaxError
RECURSIVE jsonStringBody(_, _, _)
jsonStringBody(t, i, acc) ==
  IF i > Len(t) THEN [ok |-> FALSE, value |-> <<>>]
  ELSE IF t[i] = DQ
       THEN [ok |-> i = Len(t), value |-> acc]
       ELSE IF t[i] = BS
            THEN IF i + 1 <= Len(t) /\ t[i + 1] \in {DQ, BS}
                 THEN jsonStringBody(t, i + 2, Append(acc, t[i + 1]))
                 ELSE [ok |-> FALSE, value |-> <<>>]
            ELSE jsonStringBody(t, i + 1, Append(acc, t[i]))

\* JSON.parse of a text that starts with '"'
jsonParse(t) ==
  IF t # <<>> /\ t[1] = DQ THEN jsonStringBody(t, 2, <<>>)
  ELSE [ok |-> FALSE, value |-> <<>>]

\* .replace(/'/g, '"')
replaceQuotes(t) == [i \in 1..Len(t) |-> IF t[i] = SQ THEN DQ ELSE t[i]]

stripQuotes(value) ==
  LET trimmed == trim(value)
  IN IF trimmed # <<>>
        /\ \/ trimmed[1] = DQ /\ trimmed[Len(trimmed)] = DQ
           \/ trimmed[1] = SQ /\ trimmed[Len(trimmed)] = SQ
     THEN LET parsed == jsonParse(replaceQuotes(trimmed))
          IN IF parsed.ok THEN parsed.value
             ELSE SubSeq(trimmed, 2, Len(trimmed) - 1)
     ELSE trimmed

IsDigits(s) == s # <<>> /\ \A i \in 1..Len(s) : s[i] \in DigitWords

parseScalar(value) ==
  LET cleaned == stripQuotes(value)
  IN IF Len(cleaned) = 1 /\ cleaned[1] \in BoolWords
     THEN Bool(cleaned[1] \in {"true", "TRUE"})
     ELSE IF cleaned = <<"null">> \/ cleaned = <<"~">> THEN Null
     ELSE IF IsDigits(cleaned) THEN Num(cleaned)
     ELSE Str(cleaned)

\* String(boolean): lower case
quoteYaml(value) ==
  CASE value.kind = "num" -> value.digits
    [] value.kind = "bool" -> IF value.b THEN <<"true">> ELSE <<"false">>
    [] value.kind \in {"null", "undefined"} -> <<"null">>
    [] value.kind = "str" -> jsonStringify(value.s)
    [] OTHER -> jsonStringify(<<"[object Object]">>)

---------------------------------------------------------------------------
(* Defaults *)

DefaultMission ==
  <<"Ship safe changes quickly while keeping agent instructions consistent.">>

\* inferCommandFromScripts without a package.json script of that name
TodoCommand(name) == <<"echo ", DQ, "TODO: define ", name, " command", DQ>>

\* a rules document in normal form: version as its digits, strings as texts
createDefaultRules ==
  [version |-> <<"2">>,
   mission |-> DefaultMission,
   workflow |-> <<<<"Read relevant files before editing.">>,
                  <<"Make the smallest correct change.">>,
                  <<"Run verification commands before finalizing.">>>>,
   commands |-> [n \in {"lint", "test", "build"} |-> TodoCommand(n)],
   done |-> <<<<"Commands pass or blockers are documented.">>,
              <<"Changed behavior is reflected in docs where needed.">>>>,
   approvals |-> [mode |-> <<"ask-before-destructive">>,
                  notes |-> <<<<"Ask before destructive actions or privileged operations.">>>>],
   targets |-> [id \in AdapterIds |->
                  [enabled |-> TRUE, path |-> ADAPTERS_BY_ID(id).defaultPath]]]

---------------------------------------------------------------------------
(* Parser.  A line of the text is [indent, key, text]: key is the name before
   the colon, "-" for a list item ("- text") and "" for any other line; a
   scanned line [indent, key, value] holds the coerced scalar, NoValue when
   nothing follows the colon. *)

IsPair(line) == line.key \notin {"-", ""}

\* parseScalar of what follows the colon or the dash
scanLine(raw) ==
  IF trim(raw.text) = <<>>
  THEN [indent |-> raw.indent, key |-> IF raw.key = "-" THEN "" ELSE raw.key,
        value |-> NoValue]
  ELSE [indent |-> raw.indent, key |-> raw.key, value |-> parseScalar(raw.text)]

scanLines(raws) == [i \in 1..Len(raws) |-> scanLine(raws[i])]

\* parseScalar("") where the code coerces an empty rest of line
scalarOf(v) == IF v = NoValue THEN Str(<<>>) ELSE v

\* container.push(item): a TypeError unless the container is an array
pushInto(st, key, item) ==
  LET container == Get(st.data, key)
  IN IF container.kind = "list"
     THEN [st EXCEPT !.data = Put(st.data, key, List(Append(container.items, item)))]
     ELSE [st EXCEPT !.threw = TRUE]

\* data[key][name] = value: a TypeError unless data[key] is an object
assignIn(st, key, name, value) ==
  LET container == Get(st.data, key)
  IN IF container.kind = "obj"
     THEN [st EXCEPT !.data = Put(st.data, key, Obj(Put(container.f, name, value)))]
     ELSE [st EXCEPT !.threw = TRUE]

\* variant in which a top-level scalar leaves the open section open
parseTopLevel_keepsSection(st, line) ==
  IF ~IsPair(line) THEN st
  ELSE IF line.value = NoValue
  THEN [st EXCEPT !.section = line.key,
                  !.data = IF line.key \in {"workflow", "done"}
                           THEN Put(st.data, line.key, List(<<>>))
                           ELSE Put(st.data, line.key, Obj(EmptyMap))]
  ELSE [st EXCEPT !.data = Put(st.data, line.key, line.value)]

parseTopLevel(st, line) ==
  LET st1 == [st EXCEPT !.nested = "", !.currentTarget = ""]
  IN IF ~IsPair(line) THEN st1
     ELSE IF line.value = NoValue
     THEN [st1 EXCEPT !.section = line.key,
                      !.data = IF line.key \in {"workflow", "done"}
                               THEN Put(st.data, line.key, List(<<>>))
                               ELSE IF line.key \in {"commands", "approvals", "targets"}
                               THEN Put(st.data, line.key, Obj(EmptyMap))
                               ELSE st.data]
     ELSE [st1 EXCEPT !.section = "", !.data = Put(st.data, line.key, line.value)]

parseApprovals(st, line) ==
  IF line.key = "mode" THEN assignIn(st, "approvals", "mode", scalarOf(line.value))
  ELSE IF line.key = "notes" /\ line.value = NoValue
  THEN LET st1 == [st EXCEPT !.nested = "notes"]
       IN IF Prop(Get(st.data, "approvals"), "notes").kind = "list" THEN st1
          ELSE assignIn(st1, "approvals", "notes", List(<<>>))
  ELSE IF st.nested = "notes" /\ line.key = "-"
  THEN LET approvals == Get(st.data, "approvals")
           notes == Prop(approvals, "notes")
       IN IF notes.kind = "list"
          THEN assignIn(st, "approvals", "notes", List(Append(notes.items, line.value)))
          ELSE [st EXCEPT !.threw = TRUE]
  ELSE st

parseTargets(st, line) ==
  IF line.indent = 2
  THEN IF ~IsPair(line) THEN st
       ELSE assignIn([st EXCEPT !.currentTarget = line.key], "targets", line.key,
                     IF line.value = NoValue
                     THEN Obj(EmptyMap)
                     ELSE Obj(Put(Put(EmptyMap, "path", line.value),
                                  "enabled", Bool(TRUE))))
  ELSE IF line.indent >= 4 /\ st.currentTarget # "" /\ IsPair(line)
  THEN LET cur == Prop(Get(st.data, "targets"), st.currentTarget)
           obj == IF cur.kind = "obj" THEN cur.f ELSE EmptyMap
       IN assignIn(st, "targets", st.currentTarget,
                   Obj(Put(obj, line.key, scalarOf(line.value))))
  ELSE st

\* one line of the line-oriented scanner;
\* st = [data, section, nested, currentTarget, threw]
parseLine(st, line) ==
  IF line.indent = 0 THEN parseTopLevel(st, line)
  ELSE IF st.section \in {"workflow", "done"} /\ line.key = "-"
  THEN pushInto(st, st.section, line.value)
  ELSE IF st.section = "commands"
  THEN IF IsPair(line) THEN assignIn(st, "commands", line.key, scalarOf(line.value))
       ELSE st
  ELSE IF st.section = "approvals" THEN parseApprovals(st, line)
  ELSE IF st.section = "targets" THEN parseTargets(st, line)
  ELSE st

\* an exception ends the loop
RECURSIVE parseLines(_, _)
parseLines(st, lines) ==
  IF lines = <<>> \/ st.threw THEN st
  ELSE parseLines(parseLine(st, Head(lines)), Tail(lines))

parseState(lines) ==
  parseLines([data |-> EmptyMap, section |-> "", nested |-> "",
              currentTarget |-> "", threw |-> FALSE], lines)

\* the YAML fallback of parseRulesText over the scanned lines
parseRulesText(lines) == Obj(parseState(lines).data)

---------------------------------------------------------------------------
(* Normalizer and serializer *)

\* target ids outside the registry that the documents of the model use, in
\* sorted order, and String.prototype.toUpperCase on them
CustomOrder == <<"0", "constructor", "custom", "extra">>
CustomIds == {CustomOrder[i] : i \in 1..Len(CustomOrder)}

toUpperCase(id) ==
  CASE id = "custom" -> "CUSTOM"
    [] id = "constructor" -> "CONSTRUCTOR"
    [] id = "extra" -> "EXTRA"
    [] OTHER -> id

\* `${id.toUpperCase()}.md`
syntheticPath(id) == <<toUpperCase(id), ".md">>

normalizeTargetConfig(source, fallbackPath) ==
  IF source.kind = "str" /\ trim(source.s) # <<>>
  THEN [enabled |-> TRUE, path |-> trim(source.s)]
  ELSE IF ~IsObjectLike(source)
       THEN [enabled |-> TRUE, path |-> fallbackPath]
       ELSE LET en == Prop(source, "enabled")
                pa == Prop(source, "path")
            IN [enabled |-> IF en.kind = "bool" THEN en.b ELSE TRUE,
                path |-> IF pa.kind = "str" /\ trim(pa.s) # <<>>
                         THEN trim(pa.s) ELSE fallbackPath]

\* array.filter(item => typeof item === "string"), as texts
RECURSIVE stringItems(_)
stringItems(items) ==
  IF items = <<>> THEN <<>>
  ELSE (IF Head(items).kind = "str" THEN <<Head(items).s>> ELSE <<>>)
       \o stringItems(Tail(items))

\* names every object inherits from Object.prototype: targets[name] is truthy
\* on the fresh targets object although no entry was stored under the name
ObjectPrototypeNames == {"constructor", "toString", "valueOf", "hasOwnProperty"}

\* Object.keys of the targets source: property names, or array indexes
targetKeys(sourceTargets) ==
  IF sourceTargets.kind = "obj" THEN DOMAIN sourceTargets.f
  ELSE IF sourceTargets.kind = "list" /\ sourceTargets.items # <<>> THEN {"0"}
  ELSE {}

targetSource(sourceTargets, id) ==
  IF sourceTargets.kind = "list" /\ id = "0" THEN sourceTargets.items[1]
  ELSE Prop(sourceTargets, id)

\* variant without the fallback for an empty list
orDefault_keepsEmpty(list, d) == list

\* list.length > 0 ? list : default
orDefault(list, d) == IF Len(list) > 0 THEN list ELSE d

normalizeRules(input, defaults) ==
  LET source == IF IsObjectLike(input) THEN input ELSE Obj(EmptyMap)
      pick(v) == IF IsObjectLike(v) THEN v ELSE Obj(EmptyMap)
      commands == pick(Prop(source, "commands"))
      approvals == pick(Prop(source, "approvals"))
      sourceTargets == pick(Prop(source, "targets"))
      listOr(v, d) == IF v.kind = "list" THEN stringItems(v.items) ELSE d
      textOr(v, d) == IF v.kind = "str" THEN v.s ELSE d
      workflow == listOr(Prop(source, "workflow"), defaults.workflow)
      done == listOr(Prop(source, "done"), defaults.done)
      notes == listOr(Prop(approvals, "notes"), defaults.approvals.notes)
      version == Prop(source, "version")
      mission == Prop(source, "mission")
  IN [version |-> IF version.kind = "num" THEN version.digits ELSE defaults.version,
      mission |-> IF mission.kind = "str" /\ trim(mission.s) # <<>>
                  THEN mission.s ELSE defaults.mission,
      workflow |-> orDefault(workflow, defaults.workflow),
      commands |-> [n \in {"lint", "test", "build"} |->
                      textOr(Prop(commands, n), defaults.commands[n])],
      done |-> orDefault(done, defaults.done),
      approvals |-> [mode |-> textOr(Prop(approvals, "mode"), defaults.approvals.mode),
                     notes |-> notes],
      targets |-> [id \in AdapterIds
                           \cup (targetKeys(sourceTargets) \ ObjectPrototypeNames) |->
                     IF id \in AdapterIds
                     THEN normalizeTargetConfig(targetSource(sourceTargets, id),
                                                defaults.targets[id].path)
                     ELSE normalizeTargetConfig(targetSource(sourceTargets, id),
                                                syntheticPath(id))]]

\* a normalized target entry seen again as a parsed value
asSource(config) ==
  Obj(Put(Put(EmptyMap, "enabled", Bool(config.enabled)), "path", Str(config.path)))

getTargetConfig(rules, adapter) ==
  normalizeTargetConfig(asSource(rules.targets[adapter.id]), adapter.defaultPath)

\* the lines of text stringifyRules joins with "\n"
rawLine(indent, key, text) == [indent |-> indent, key |-> key, text |-> text]

itemLines(indent, items) ==
  [i \in 1..Len(items) |-> rawLine(indent, "-", quoteYaml(Str(items[i])))]

targetLines(rules, id) ==
  LET config == normalizeTargetConfig(asSource(rules.targets[id]), syntheticPath(id))
  IN <<rawLine(2, id, <<>>),
       rawLine(4, "enabled", quoteYaml(Bool(config.enabled))),
       rawLine(4, "path", quoteYaml(Str(config.path)))>>

RECURSIVE allTargetLines(_, _)
allTargetLines(rules, ids) ==
  IF ids = <<>> THEN <<>>
  ELSE targetLines(rules, Head(ids)) \o allTargetLines(rules, Tail(ids))

stringifyRules(rules) ==
  LET knownTargetIds == [i \in 1..Len(ADAPTERS) |-> ADAPTERS[i].id]
      allTargetIds ==
        SelectSeq(knownTargetIds, LAMBDA id : id \in DOMAIN rules.targets)
          \o SelectSeq(CustomOrder, LAMBDA id : id \in DOMAIN rules.targets
                                                  /\ id \notin AdapterIds)
      commandNames == <<"lint", "test", "build">>
  IN <<rawLine(0, "version", quoteYaml(Num(rules.version))),
       rawLine(0, "mission", quoteYaml(Str(rules.mission))),
       rawLine(0, "workflow", <<>>)>>
     \o itemLines(2, rules.workflow)
     \o <<rawLine(0, "commands", <<>>)>>
     \o [i \in 1..3 |-> rawLine(2, commandNames[i],
                                 quoteYaml(Str(rules.commands[commandNames[i]])))]
     \o <<rawLine(0, "done", <<>>)>>
     \o itemLines(2, rules.done)
     \o <<rawLine(0, "approvals", <<>>),
          rawLine(2, "mode", quoteYaml(Str(rules.approvals.mode))),
          rawLine(2, "notes", <<>>)>>
     \o itemLines(4, rules.approvals.notes)
     \o <<rawLine(0, "targets", <<>>)>>
     \o allTargetLines(rules, allTargetIds)

---------------------------------------------------------------------------
(* Command line *)

RECURSIVE uniqueIds(_, _)
uniqueIds(raw, unique) ==
  IF raw = <<>> THEN [error |-> unique = <<>>, ids |-> unique]
  ELSE LET id == Head(raw)
       IN IF id = "" THEN uniqueIds(Tail(raw), unique)
          ELSE IF id \notin AdapterIds THEN [error |-> TRUE, ids |-> <<>>]
          ELSE IF \E i \in 1..Len(unique) : unique[i] = id
               THEN uniqueIds(Tail(raw), unique)
               ELSE uniqueIds(Tail(raw), Append(unique, id))

\* spec: the comma-separated --target value, split at the commas
getTargetsFromSpec(spec) ==
  IF spec = <<"all">>
  THEN [error |-> FALSE, ids |-> [i \in 1..Len(ADAPTERS) |-> ADAPTERS[i].id]]
  ELSE uniqueIds(spec, <<>>)

\* options.backup && !options.write is rejected
parseTargetedArgs(targetSpec, write, backup) ==
  IF backup /\ ~write THEN [error |-> TRUE, ids |-> <<>>]
  ELSE getTargetsFromSpec(targetSpec)

---------------------------------------------------------------------------
(* Planning *)

existsSync(d, p) == p \in DOMAIN d

readFileSync(d, p) == d[p]

\* bug variant: every enabled target is reported as changed
buildPlan_alwaysChanged(d, rootDir, rules, targetId) ==
  LET adapter == ADAPTERS_BY_ID(targetId)
      target == getTargetConfig(rules, adapter)
      targetPath == resolveInRoot(rootDir, target.path)
      currentText == IF existsSync(d, targetPath) THEN readFileSync(d, targetPath)
                     ELSE <<>>
      rendered == trim(render(adapter, rules))
  IN [targetId |-> targetId, enabled |-> target.enabled, targetPath |-> targetPath,
      targetPathDisplay |-> target.path, exists |-> existsSync(d, targetPath),
      currentText |-> currentText,
      desiredText |-> IF ~target.enabled THEN currentText
                      ELSE IF adapter.management = "marker"
                      THEN upsertManagedSection(currentText, rendered,
                                                adapter.markerBegin, adapter.markerEnd)
                      ELSE rendered \o <<NL>>,
      changed |-> target.enabled]

buildPlan(d, rootDir, rules, targetId) ==
  LET adapter == ADAPTERS_BY_ID(targetId)
      target == getTargetConfig(rules, adapter)
      targetPath == resolveInRoot(rootDir, target.path)
      fileExists == existsSync(d, targetPath)
      currentText == IF fileExists THEN readFileSync(d, targetPath) ELSE <<>>
      rendered == trim(render(adapter, rules))
      desiredText ==
        IF adapter.management = "marker"
        THEN upsertManagedSection(currentText, rendered,
                                  adapter.markerBegin, adapter.markerEnd)
        ELSE rendered \o <<NL>>
  IN IF ~target.enabled
     THEN [targetId |-> targetId, enabled |-> FALSE, targetPath |-> targetPath,
           targetPathDisplay |-> target.path, exists |-> fileExists,
           currentText |-> currentText, desiredText |-> currentText,
           changed |-> FALSE]
     ELSE [targetId |-> targetId, enabled |-> TRUE, targetPath |-> targetPath,
           targetPathDisplay |-> target.path, exists |-> fileExists,
           currentText |-> currentText, desiredText |-> desiredText,
           changed |-> desiredText # currentText]

buildTargetPlans(d, rootDir, rules, targetIds) ==
  [i \in 1..Len(targetIds) |-> buildPlan(d, rootDir, rules, targetIds[i])]

formatPlanSummary(plans) ==
  [changed |-> Cardinality({i \in 1..Len(plans) : plans[i].changed}),
   enabled |-> Cardinality({i \in 1..Len(plans) : plans[i].enabled})]

\* acc = [conflict, uniquePlans (the Map's values, in insertion order), duplicates]
RECURSIVE uniqueWritePlans(_, _)
uniqueWritePlans(plans, acc) ==
  IF plans = <<>> \/ acc.conflict THEN acc
  ELSE LET plan == Head(plans)
           same == {i \in 1..Len(acc.uniquePlans) :
                      acc.uniquePlans[i].targetPath = plan.targetPath}
       IN IF ~plan.enabled \/ ~plan.changed
          THEN uniqueWritePlans(Tail(plans), acc)
          ELSE IF same = {}
          THEN uniqueWritePlans(Tail(plans),
                 [acc EXCEPT !.uniquePlans = Append(@, plan)])
          ELSE LET found == acc.uniquePlans[Min(same)]
               IN IF found.desiredText # plan.desiredText
                  THEN [acc EXCEPT !.conflict = TRUE]
                  ELSE uniqueWritePlans(Tail(plans),
                         [acc EXCEPT !.duplicates =
                            Append(@, [winner |-> found.targetId,
                                       duplicate |-> plan.targetId,
                                       targetPath |-> plan.targetPath])])

\* bug variant: plans are not grouped by path, every changed plan is written
getUniqueWritePlans_noDedupe(plans) ==
  [conflict |-> FALSE,
   uniquePlans |-> SelectSeq(plans, LAMBDA plan : plan.enabled /\ plan.changed),
   duplicates |-> <<>>]

getUniqueWritePlans(plans) ==
  uniqueWritePlans(plans, [conflict |-> FALSE, uniquePlans |-> <<>>, duplicates |-> <<>>])

---------------------------------------------------------------------------
(* Commands *)

\* bug variant: the early return of the dry run is lost
isDryRun_never(write) == FALSE

\* syncCommand returns before the write phase unless --write was given
isDryRun(write) == ~write

\* backup sibling of a target file: the suffix is one more element of the
\* path; the timestamp is left out, so a later backup of the same target
\* replaces the earlier one
backupPath(p) == Append(p, ".rules-doctor.bak")

\* bug variant: the snapshot is taken after the target file was overwritten
writePlan_backupAfterWrite(plan, backup) ==
  <<[op |-> "mkdir", path |-> dirname(plan.targetPath), text |-> <<>>],
    [op |-> "write", path |-> plan.targetPath, text |-> plan.desiredText]>>
  \o (IF backup /\ plan.exists
      THEN <<[op |-> "backup", path |-> backupPath(plan.targetPath),
              text |-> plan.desiredText]>>
      ELSE <<>>)

\* the disk operations of one pass of the write loop, in program order
writePlan(plan, backup) ==
  <<[op |-> "mkdir", path |-> dirname(plan.targetPath), text |-> <<>>]>>
  \o (IF backup /\ plan.exists
      THEN <<[op |-> "backup", path |-> backupPath(plan.targetPath),
              text |-> plan.currentText]>>
      ELSE <<>>)
  \o <<[op |-> "write", path |-> plan.targetPath, text |-> plan.desiredText]>>

RECURSIVE writeLoop(_, _)
writeLoop(uniquePlans, backup) ==
  IF uniquePlans = <<>> THEN <<>>
  ELSE writePlan(Head(uniquePlans), backup) \o writeLoop(Tail(uniquePlans), backup)

\* the files of the disk after the events: writeFileSync of a backup or of a
\* target file creates or replaces the file; directories are not files
RECURSIVE applyEvents(_, _)
applyEvents(d, events) ==
  IF events = <<>> THEN d
  ELSE LET e == Head(events)
       IN applyEvents(IF e.op \in {"write", "backup"} THEN Put(d, e.path, e.text) ELSE d,
                      Tail(events))

\* what the logger received, as [kind, subject]: one status line per plan and
\* the closing line of the command
message(kind, subject) == [kind |-> kind, subject |-> subject]

planStatus(cmd, plan) ==
  message(IF ~plan.enabled THEN "disabled"
          ELSE IF cmd = "sync"
               THEN (IF plan.changed THEN "would update" ELSE "up-to-date")
               ELSE (IF plan.changed THEN "drift detected" ELSE "in sync"),
          plan.targetId)

planStatuses(cmd, plans) == [i \in 1..Len(plans) |-> planStatus(cmd, plans[i])]

\* runCli's catch: the error message is logged, exit code 1
Failure(cmd, targetSpec, write, backup) ==
  [cmd |-> cmd, targetSpec |-> targetSpec, write |-> write, backup |-> backup,
   exit |-> 1, loaded |-> FALSE, plans |-> <<>>, events |-> <<>>, notes |-> <<>>,
   failed |-> FALSE, log |-> <<message("error", cmd)>>]

\* bug variant: a missing document is answered with the defaults
\* (the allowMissing branch taken for every caller)
loadRules_allowMissing(doc) ==
  IF ~doc.exists THEN [error |-> FALSE, rules |-> createDefaultRules]
  ELSE [error |-> parseState(doc.lines).threw,
        rules |-> normalizeRules(Obj(parseState(doc.lines).data), createDefaultRules)]

\* loadRules: the document must exist; parse, then normalize over the defaults
loadRules(doc) ==
  LET parsed == parseState(doc.lines)
  IN IF ~doc.exists \/ parsed.threw
     THEN [error |-> TRUE, rules |-> createDefaultRules]
     ELSE [error |-> FALSE,
           rules |-> normalizeRules(Obj(parsed.data), createDefaultRules)]

\* bug variant: an operation that throws is skipped and the loop goes on
completed_skipsFailed(operations, fail) ==
  SelectSeq([i \in 1..Len(operations) |-> [operations[i] EXCEPT !.op =
               IF i = fail THEN "failed" ELSE @]],
            LAMBDA e : e.op # "failed")

\* the operations of the write loop that were carried out when the fail-th
\* one throws (mkdirSync or writeFileSync); fail = 0: none throws
completed(operations, fail) ==
  IF fail \in 1..Len(operations) THEN SubSeq(operations, 1, fail - 1) ELSE operations

\* the invocation record of `sync`, computed from the disk and the document
syncResultIn(rootDir, d, doc, targetSpec, write, backup, fail) ==
  LET options == parseTargetedArgs(targetSpec, write, backup)
      loaded == loadRules(doc)
      plans == buildTargetPlans(d, rootDir, loaded.rules, options.ids)
      unique == getUniqueWritePlans(plans)
      statuses == planStatuses("sync", plans)
      operations == writeLoop(unique.uniquePlans, backup)
      base == [cmd |-> "sync", targetSpec |-> targetSpec, write |-> write,
               backup |-> backup, loaded |-> TRUE, plans |-> plans]
  IN IF options.error \/ loaded.error THEN Failure("sync", targetSpec, write, backup)
     ELSE IF isDryRun(write)
     THEN base @@ [exit |-> 0, events |-> <<>>, notes |-> <<>>, failed |-> FALSE,
                   log |-> Append(statuses, message("dry-run complete", "sync"))]
     ELSE IF unique.conflict
     THEN base @@ [exit |-> 1, events |-> <<>>, notes |-> <<>>, failed |-> FALSE,
                   log |-> Append(statuses, message("error", "sync"))]
     ELSE IF fail \in 1..Len(operations)
     THEN base @@ [exit |-> 1, events |-> completed(operations, fail),
                   notes |-> unique.duplicates, failed |-> TRUE,
                   log |-> Append(statuses, message("error", "sync"))]
     ELSE base @@ [exit |-> 0, events |-> operations,
                   notes |-> unique.duplicates, failed |-> FALSE,
                   log |-> Append(statuses, message("write complete", "sync"))]

\* sync in the project whose root is Root
syncResult(d, doc, targetSpec, write, backup, fail) ==
  syncResultIn(Root, d, doc, targetSpec, write, backup, fail)

checkResult(d, doc, targetSpec) ==
  LET options == parseTargetedArgs(targetSpec, FALSE, FALSE)
      loaded == loadRules(doc)
      plans == buildTargetPlans(d, Root, loaded.rules, options.ids)
      summary == formatPlanSummary(plans)
  IN IF options.error \/ loaded.error THEN Failure("check", targetSpec, FALSE, FALSE)
     ELSE [cmd |-> "check", targetSpec |-> targetSpec, write |-> FALSE,
           backup |-> FALSE, exit |-> IF summary.changed = 0 THEN 0 ELSE 1,
           loaded |-> TRUE, plans |-> plans, events |-> <<>>, notes |-> <<>>,
           failed |-> FALSE,
           log |-> Append(planStatuses("check", plans),
                          message(IF summary.changed = 0 THEN "check complete"
                                  ELSE "check failed", "check"))]

---------------------------------------------------------------------------
(* Explored environment: documents, files on disk, command lines *)

ClaudePaths ==
  {<<"CLAUDE.md">>, <<"AGENTS.md">>, <<>>, <<"/", "tmp", "claude.md">>,
   <<"..", "claude.md">>, <<"linked", "CLAUDE.md">>}

\* directories of the project that are symbolic links
Symlinks == {<<"/", "proj", "linked">>}

\* the text of a rules.yaml written by the user, as readFileSync returns it
YamlText == <<"version: 2", NL, "mission: demo", NL, "targets:", NL>>

\* a document with a mission and one targets entry, for claude
userDoc(indent, enabled, path) ==
  [exists |-> TRUE, text |-> YamlText,
   lines |-> <<[indent |-> 0, key |-> "version", value |-> Num(<<"2">>)],
               [indent |-> 0, key |-> "mission", value |-> Str(<<"demo">>)],
               [indent |-> 0, key |-> "targets", value |-> NoValue],
               [indent |-> indent, key |-> "claude", value |-> NoValue],
               [indent |-> indent + 2, key |-> "enabled", value |-> Bool(enabled)],
               [indent |-> indent + 2, key |-> "path", value |-> Str(path)]>>]

MissingDoc == [exists |-> FALSE, text |-> <<>>, lines |-> <<>>]

\* the same document without its mission line
withoutMission(doc) ==
  [doc EXCEPT !.lines = SelectSeq(doc.lines, LAMBDA line : line.key # "mission")]

\* every path with an enabled two-space entry; a disabled entry and a
\* four-space entry with the paths that name a target file of the project
UserDocs ==
  {userDoc(2, TRUE, p) : p \in ClaudePaths}
    \cup {userDoc(2, FALSE, p) : p \in {<<"CLAUDE.md">>, <<"AGENTS.md">>}}
    \cup {userDoc(4, e, <<"CLAUDE.md">>) : e \in BOOLEAN}
    \cup {withoutMission(userDoc(2, TRUE, <<"CLAUDE.md">>)), MissingDoc}

AgentsPath == <<"/", "proj", "AGENTS.md">>
ClaudePath == <<"/", "proj", "CLAUDE.md">>

\* what the user may already have in AGENTS.md
AgentsHosts ==
  {<<"notes", NL>>,
   <<MarkerBegin, NL, "old", NL>>,
   <<"notes", NL, NL, MarkerBegin, NL, "old", NL, MarkerEnd, NL, NL, "footer", NL>>,
   <<"notes", NL, NL, NL, "more", NL>>}

InitialDisks ==
  {EmptyMap, Put(EmptyMap, ClaudePath, <<"mine", NL>>)}
    \cup {Put(EmptyMap, AgentsPath, h) : h \in AgentsHosts}

TargetSpecs ==
  {<<"all">>, <<"claude">>, <<"codex", "", "codex">>, <<"codex", "opencode">>,
   <<"nope">>}

NoDocInput == [kind |-> "none"]
NotRun == [op |-> "none"]

NoInvocation ==
  [cmd |-> "none", targetSpec |-> <<>>, write |-> FALSE, backup |-> FALSE,
   exit |-> 0, loaded |-> FALSE, plans |-> <<>>, events |-> <<>>, notes |-> <<>>,
   failed |-> FALSE, log |-> <<>>]

Init ==
  /\ disk \in InitialDisks
  /\ rulesDoc \in UserDocs
  /\ last = NoInvocation
  /\ existing = <<>>
  /\ content = <<>>
  /\ results = <<>>
  /\ docInput = NoDocInput
  /\ docOutput = NotRun

\* the files the process sees: rules.yaml is one of the files of the project
filesOf(d, doc) == IF doc.exists THEN Put(d, RulesPath, doc.text) ELSE d

\* rules.yaml after the disk operations: a target whose path names the
\* document replaces it by the rendered Markdown, which parseRulesText scans
\* without finding a key (headings, list items and the mission's prose)
rulesFileAfter(doc, events) ==
  LET writes == {i \in 1..Len(events) :
                   events[i].op \in {"write", "backup"} /\ events[i].path = RulesPath}
  IN IF writes = {} THEN doc
     ELSE [exists |-> TRUE, text |-> events[Max(writes)].text,
           lines |-> <<[indent |-> 0, key |-> "", value |-> NoValue]>>]

\* fail: which disk operation of the write loop throws (0: none)
syncCommand(targetSpec, write, backup, fail) ==
  /\ last' = syncResult(filesOf(disk, rulesDoc), rulesDoc, targetSpec, write, backup, fail)
  /\ disk' = LET after == applyEvents(disk, last'.events)
             IN [p \in DOMAIN after \ {RulesPath} |-> after[p]]
  /\ rulesDoc' = rulesFileAfter(rulesDoc, last'.events)
  /\ UNCHANGED <<existing, content, results, docInput, docOutput>>

checkCommand(targetSpec) ==
  /\ last' = checkResult(filesOf(disk, rulesDoc), rulesDoc, targetSpec)
  /\ UNCHANGED <<disk, rulesDoc, existing, content, results, docInput, docOutput>>

\* every disk operation succeeds
Next ==
  \/ \E t \in TargetSpecs, w \in BOOLEAN, b \in BOOLEAN : syncCommand(t, w, b, 0)
  \/ \E t \in TargetSpecs : checkCommand(t)

Spec == Init /\ [][Next]_vars

---------------------------------------------------------------------------
(* The write loop on a disk whose operations may fail *)

\* claude enabled, disabled, and pointed at the rules document itself
IoDocs ==
  {userDoc(2, TRUE, <<"CLAUDE.md">>), userDoc(2, FALSE, <<"CLAUDE.md">>),
   userDoc(2, TRUE, RULES_RELATIVE_PATH), MissingDoc}

IoDisks ==
  {EmptyMap, Put(EmptyMap, ClaudePath, <<"mine", NL>>),
   Put(EmptyMap, AgentsPath, <<MarkerBegin, NL, "old", NL>>)}

IoTargetSpecs == {<<"claude", "codex", "gemini">>, <<"claude", "codex">>, <<"codex">>}

IoInit ==
  /\ disk \in IoDisks
  /\ rulesDoc \in IoDocs
  /\ last = NoInvocation
  /\ existing = <<>>
  /\ content = <<>>
  /\ results = <<>>
  /\ docInput = NoDocInput
  /\ docOutput = NotRun

\* sync --write, with or without --backup, and check
IoNext ==
  \/ \E t \in IoTargetSpecs, b \in BOOLEAN, fail \in 0..MaxFailAt :
        syncCommand(t, TRUE, b, fail)
  \/ \E t \in IoTargetSpecs : checkCommand(t)

SpecIO == IoInit /\ [][IoNext]_vars

---------------------------------------------------------------------------
(* Marker merge on its own: every host text and content within the bounds *)

\* the host and content of the documented missing-end-marker example
ExampleHost == <<MarkerBegin, NL, "old", NL>>
ExampleContent == <<"new">>

\* managed content in which a sentinel occurs, as when the mission quotes it
SentinelContents ==
  {<<"x", MarkerEnd, "y">>, <<MarkerEnd>>, <<"x", MarkerBegin>>,
   <<MarkerBegin, "x", MarkerEnd>>}

MergeInit ==
  /\ \/ existing \in HostTexts /\ content \in ContentTexts
     \/ existing = ExampleHost /\ content = ExampleContent
     \/ existing \in {<<>>, <<"notes", NL>>, ExampleHost} /\ content \in SentinelContents
  /\ results = <<>>
  /\ disk = EmptyMap
  /\ rulesDoc = MissingDoc
  /\ last = NoInvocation
  /\ docInput = NoDocInput
  /\ docOutput = NotRun

\* first sync of a marker-managed target: merge into the text found on disk
MergeFirst ==
  /\ results = <<>>
  /\ results' = <<upsertManagedSection(existing, content, MarkerBegin, MarkerEnd)>>
  /\ UNCHANGED <<existing, content, disk, rulesDoc, last, docInput, docOutput>>

\* a later sync with the same content: merge into what the previous one wrote
MergeAgain ==
  /\ Len(results) \in 1..(MaxApplications - 1)
  /\ results' = Append(results,
       upsertManagedSection(results[Len(results)], content, MarkerBegin, MarkerEnd))
  /\ UNCHANGED <<existing, content, disk, rulesDoc, last, docInput, docOutput>>

MergeNext == MergeFirst \/ MergeAgain

SpecMerge == MergeInit /\ [][MergeNext]_vars

---------------------------------------------------------------------------
(* The document functions on their own: texts, parsed trees and documents *)

ScalarChars == {"a", " ", "#", SQ, DQ, BS, "TRUE", "42"}
ScalarTexts == SeqsUpTo(ScalarChars, MaxScalarLen)
SomeText == <<"a">>

\* the lines a document text is made of
RawLineShapes ==
  {rawLine(0, k, <<>>) : k \in {"workflow", "commands", "approvals", "targets"}}
    \cup {rawLine(0, "commands", SomeText), rawLine(0, "mission", <<SQ, "a", SQ>>),
          rawLine(0, "", <<"?">>), rawLine(2, "", <<"?">>),
          rawLine(2, "-", SomeText), rawLine(4, "-", <<"42">>),
          rawLine(2, "deploy", SomeText), rawLine(2, "mode", SomeText),
          rawLine(2, "notes", <<>>), rawLine(2, "claude", <<>>),
          rawLine(4, "claude", <<>>), rawLine(4, "enabled", <<"false">>)}

\* "version: 2 # note\nmission: 'It''s ok'"
ExampleText ==
  <<rawLine(0, "version", <<" ", "2", " ", "#", " ", "note">>),
    rawLine(0, "mission", <<" ", SQ, "It", SQ, SQ, "s", " ", "ok", SQ>>)>>

TextInputs ==
  {[kind |-> "text", lines |-> ls] :
     ls \in SeqsUpTo(RawLineShapes, MaxDocLines) \cup {ExampleText}}

\* texts that JSON.parse accepts, by the value it returns
JsonValues ==
  {Null, Num(<<"42">>), Bool(TRUE), Str(SomeText), List(<<>>), List(<<Str(SomeText)>>),
   Obj(EmptyMap), Obj(Put(EmptyMap, "mission", Num(<<"2">>)))}

JsonInputs == {[kind |-> "json", value |-> v] : v \in JsonValues}

\* parsed trees, well-typed or not: Undefined is an absent key
VersionChoices == {Undefined, Num(<<"42">>), Str(<<"42">>)}
MissionChoices == {Undefined, Str(SomeText), Str(<<" ">>), Bool(TRUE)}
ListChoices == {Undefined, List(<<>>), List(<<Str(SomeText), Num(<<"2">>)>>), Str(SomeText)}
CommandChoices ==
  {Undefined, Null, Obj(Put(EmptyMap, "lint", Str(SomeText))),
   Obj(Put(Put(EmptyMap, "deploy", Str(SomeText)), "test", Num(<<"2">>)))}
ApprovalChoices ==
  {Undefined, Str(SomeText), Obj(Put(EmptyMap, "mode", Bool(FALSE))),
   Obj(Put(Put(EmptyMap, "mode", Str(SomeText)), "notes", List(<<Null, Str(SomeText)>>)))}
TargetChoices ==
  {Undefined, List(<<Str(<<" ">>)>>),
   Obj(Put(EmptyMap, "claude", Obj(Put(EmptyMap, "enabled", Bool(FALSE))))),
   Obj(Put(EmptyMap, "claude", Obj(Put(EmptyMap, "path", Str(<<" ">>))))),
   Obj(Put(Put(EmptyMap, "custom", Str(<<"docs", "/", "a.md">>)), "codex", Str(<<" ">>))),
   Obj(Put(Put(EmptyMap, "custom", Obj(Put(EmptyMap, "path", Str(<<>>)))),
           "extra", Null)),
   Obj(Put(EmptyMap, "constructor", Obj(Put(EmptyMap, "path", Str(SomeText)))))}

tree(v, m, w, c, d, a, t) ==
  Obj([k \in {"version", "mission", "workflow", "commands", "done", "approvals", "targets"} |->
         CASE k = "version" -> v [] k = "mission" -> m [] k = "workflow" -> w
           [] k = "commands" -> c [] k = "done" -> d [] k = "approvals" -> a
           [] OTHER -> t])

TreeInputs ==
  {[kind |-> "tree", value |-> v] : v \in JsonValues}
    \cup {[kind |-> "tree", value |-> tree(v, m, w, c, w, a, t)] :
            v \in VersionChoices, m \in MissionChoices, w \in ListChoices,
            c \in CommandChoices, a \in ApprovalChoices, t \in TargetChoices}

\* valid documents: every required key with a value of its type; the strings
\* range over the scalar texts
asList(texts) == List([i \in 1..Len(texts) |-> Str(texts[i])])

document(mission, item, customPath) ==
  LET d == createDefaultRules
  IN tree(Num(d.version), Str(mission), asList(<<item>>),
          Obj([n \in DOMAIN d.commands |-> Str(d.commands[n])]),
          asList(d.done),
          Obj(Put(Put(EmptyMap, "mode", Str(d.approvals.mode)),
                  "notes", asList(d.approvals.notes))),
          Obj(Put(EmptyMap, "custom",
                  Obj(Put(Put(EmptyMap, "enabled", Bool(TRUE)), "path", Str(customPath))))))

NonBlankTexts == {s \in ScalarTexts : trim(s) = s /\ s # <<>>}

DocumentInputs ==
  {[kind |-> "document", value |-> document(m, SomeText, SomeText)] : m \in NonBlankTexts}
    \cup {[kind |-> "document", value |-> document(SomeText, i, SomeText)] : i \in NonBlankTexts}
    \cup {[kind |-> "document", value |-> document(SomeText, SomeText, p)] : p \in NonBlankTexts}

DocInit ==
  /\ docInput \in TextInputs \cup JsonInputs \cup TreeInputs \cup DocumentInputs
  /\ docOutput = NotRun
  /\ disk = EmptyMap
  /\ rulesDoc = MissingDoc
  /\ last = NoInvocation
  /\ existing = <<>>
  /\ content = <<>>
  /\ results = <<>>

\* parseRulesText: JSON.parse first, the line scanner when that fails
ParseText ==
  /\ docOutput = NotRun
  /\ docInput.kind \in {"text", "json"}
  /\ docOutput' =
       IF docInput.kind = "json"
       THEN [op |-> "parse", threw |-> FALSE, value |-> docInput.value]
       ELSE LET st == parseState(scanLines(docInput.lines))
            IN [op |-> "parse", threw |-> st.threw, value |-> Obj(st.data)]
  /\ UNCHANGED <<docInput, disk, rulesDoc, last, existing, content, results>>

Normalize ==
  /\ docOutput = NotRun
  /\ docInput.kind = "tree"
  /\ docOutput' = [op |-> "normalize",
                   rules |-> normalizeRules(docInput.value, createDefaultRules)]
  /\ UNCHANGED <<docInput, disk, rulesDoc, last, existing, content, results>>

\* normalize, serialize, parse and normalize again
RoundTrip ==
  /\ docOutput = NotRun
  /\ docInput.kind = "document"
  /\ LET rules == normalizeRules(docInput.value, createDefaultRules)
         text == stringifyRules(rules)
     IN docOutput' = [op |-> "roundtrip", rules |-> rules, text |-> text,
                      again |-> normalizeRules(parseRulesText(scanLines(text)),
                                               createDefaultRules)]
  /\ UNCHANGED <<docInput, disk, rulesDoc, last, existing, content, results>>

DocNext == ParseText \/ Normalize \/ RoundTrip

SpecDoc == DocInit /\ [][DocNext]_vars

---------------------------------------------------------------------------
(* The preview diff on its own *)

CR == "\r"

\* f[lo] \o ... \o f[hi] for a sequence f of sequences
RECURSIVE flatten(_, _, _)
flatten(f, lo, hi) ==
  IF lo > hi THEN <<>>
  ELSE IF lo = hi THEN f[lo]
  ELSE LET mid == (lo + hi) \div 2
       IN flatten(f, lo, mid) \o flatten(f, mid + 1, hi)

\* text.replace(/\r\n/g, "\n")
normalizeNewlines(text) ==
  flatten([i \in 1..Len(text) |->
             IF text[i] = CR /\ i < Len(text) /\ text[i + 1] = NL THEN <<>>
             ELSE <<text[i]>>],
          1, Len(text))

\* text.split("\n"): the lines of the text, one more than it has newlines
split(text) ==
  LET breaks == flatten([i \in 1..Len(text) |-> IF text[i] = NL THEN <<i>> ELSE <<>>],
                        1, Len(text))
      from(k) == IF k = 1 THEN 1 ELSE breaks[k - 1] + 1
      to(k) == IF k = Len(breaks) + 1 THEN Len(text) ELSE breaks[k] - 1
  IN [k \in 1..(Len(breaks) + 1) |-> SubSeq(text, from(k), to(k))]

hardLimit == 120

\* bug variant: the loop is left one index too late
truncated_late(emitted) == emitted > hardLimit

truncated(emitted) == emitted >= hardLimit

\* the lines of the returned string; <<>> is the empty string.  pushed[index]
\* holds what the pass of the loop for that index (counted from 1) pushes,
\* emitted(index) the counter after that pass; the loop is left at the first
\* pass that pushes and finds the counter at the limit
renderSimpleDiff(currentText, desiredText) ==
  LET oldLines == split(normalizeNewlines(currentText))
      newLines == split(normalizeNewlines(desiredText))
      maxLines == IF Len(oldLines) > Len(newLines) THEN Len(oldLines) ELSE Len(newLines)
      pushed == [index \in 1..maxLines |->
                   IF /\ index <= Len(oldLines) /\ index <= Len(newLines)
                      /\ oldLines[index] = newLines[index]
                   THEN <<>>
                   ELSE (IF index <= Len(oldLines)
                         THEN <<<<"-">> \o oldLines[index]>> ELSE <<>>)
                        \o (IF index <= Len(newLines)
                            THEN <<<<"+">> \o newLines[index]>> ELSE <<>>)]
      emitted(index) == Len(flatten(pushed, 1, index))
      breaks == {index \in 1..maxLines :
                   pushed[index] # <<>> /\ truncated(emitted(index))}
  IN IF currentText = desiredText THEN <<>>
     ELSE <<<<"--- current">>, <<"+++ desired">>>>
          \o (IF breaks = {} THEN flatten(pushed, 1, maxLines)
              ELSE Append(flatten(pushed, 1, Min(breaks)), <<"... diff truncated ...">>))

\* n lines, each holding the token t and closed by a newline
lines(t, n) == [i \in 1..(2 * n) |-> IF i % 2 = 1 THEN t ELSE NL]

DiffAlphabet == {"a", NL, CR}

\* line counts around half the cap (every index emits two lines) and around
\* the cap (indices past the end of the shorter text emit one)
LongCounts ==
  {0} \cup ((MaxLongLines - 3)..MaxLongLines)
      \cup ((2 * MaxLongLines - 3)..(2 * MaxLongLines))

\* every short text, and long texts around the cap
DiffInputs ==
  {[kind |-> "diff", current |-> c, desired |-> d] :
     c \in SeqsUpTo(DiffAlphabet, MaxDiffLen), d \in SeqsUpTo(DiffAlphabet, MaxDiffLen)}
  \cup {[kind |-> "diff", current |-> lines("a", n) \o lines("b", m),
                          desired |-> lines("a", n) \o lines("c", k)] :
          n \in 0..1, m \in LongCounts, k \in LongCounts}

DiffInit ==
  /\ docInput \in DiffInputs
  /\ docOutput = NotRun
  /\ disk = EmptyMap
  /\ rulesDoc = MissingDoc
  /\ last = NoInvocation
  /\ existing = <<>>
  /\ content = <<>>
  /\ results = <<>>

Diff ==
  /\ docOutput = NotRun
  /\ docInput.kind = "diff"
  /\ docOutput' = [op |-> "diff",
                   output |-> renderSimpleDiff(docInput.current, docInput.desired)]
  /\ UNCHANGED <<docInput, disk, rulesDoc, last, existing, content, results>>

DiffNext == Diff

SpecDiff == DiffInit /\ [][DiffNext]_vars

---------------------------------------------------------------------------
(* init and preset apply: the commands that write the rules document *)

PRESET_NAMES == {"all", "core", "copilot"}

getPresetTargetIds(presetName) ==
  CASE presetName = "all" -> AdapterIds
    [] presetName = "core" -> {"claude", "codex", "opencode", "cursor", "gemini"}
    [] presetName = "copilot" -> {"copilot"}

\* bug variant: the path of a target taken out of the preset is reset
applyTargetPreset_resetsPath(rules, presetName) ==
  [rules EXCEPT !.targets =
     [id \in (DOMAIN @) \cup AdapterIds |->
        IF id \in AdapterIds
        THEN [enabled |-> id \in getPresetTargetIds(presetName),
              path |-> IF id \in getPresetTargetIds(presetName) /\ id \in DOMAIN @
                       THEN @[id].path ELSE ADAPTERS_BY_ID(id).defaultPath]
        ELSE @[id]]]

\* every built-in target gets enabled = membership in the preset and keeps
\* its (normalized) path; other entries are not touched
applyTargetPreset(rules, presetName) ==
  [rules EXCEPT !.targets =
     [id \in (DOMAIN @) \cup AdapterIds |->
        IF id \in AdapterIds
        THEN [enabled |-> id \in getPresetTargetIds(presetName),
              path |-> normalizeTargetConfig(
                         IF id \in DOMAIN @ THEN asSource(@[id]) ELSE Undefined,
                         ADAPTERS_BY_ID(id).defaultPath).path]
        ELSE @[id]]]

\* the text of the file stringifyRules describes: its lines joined with "\n"
textOf(raws) ==
  flatten([i \in 1..Len(raws) |->
             <<ToString(raws[i].indent), raws[i].key>> \o raws[i].text \o <<NL>>],
          1, Len(raws))

\* writeFileSync(rulesFile, stringifyRules(rules))
writeRules(rules) ==
  [exists |-> TRUE, text |-> textOf(stringifyRules(rules)),
   lines |-> scanLines(stringifyRules(rules))]

\* collectImportSources: the candidate documents that exist, in this order
ImportCandidates ==
  <<<<"CLAUDE.md">>, <<".claude", "CLAUDE.md">>, <<"AGENTS.md">>,
    <<".github", "copilot-instructions.md">>, <<"GEMINI.md">>,
    <<".cursor", "rules", "rules-doctor.mdc">>>>

collectImportSources(d) ==
  SelectSeq(ImportCandidates, LAMBDA path : existsSync(d, resolveInRoot(Root, path)))

\* the first non-empty line of the section headed "Mission", <<>> without
\* one.  A heading is one token; the documents explored hold no other section
\* the import reads (workflow, done, approvals) and no command lines.
MissionHeadings == {"# Mission", "## Mission", "### Mission"}

Headings == MissionHeadings \cup {"# Notes"}

missionSection(text) ==
  LET heads == {i \in 1..Len(text) : text[i] \in MissionHeadings}
      next == Min({i \in 1..Len(text) : i > Min(heads) /\ text[i] \in Headings}
                  \cup {Len(text) + 1})
      body == {i \in 1..Len(text) : i > Min(heads) /\ i < next /\ ~IsSpace(text[i])}
  IN IF heads = {} THEN <<>> ELSE IF body = {} THEN <<>> ELSE <<text[Min(body)]>>

RECURSIVE importMission(_, _, _)
importMission(d, sources, mission) ==
  IF sources = <<>> THEN mission
  ELSE LET found == missionSection(readFileSync(d, resolveInRoot(Root, Head(sources))))
       IN importMission(d, Tail(sources), IF found # <<>> THEN found ELSE mission)

importRulesFromDocs(d, defaults) ==
  LET sources == collectImportSources(d)
  IN [rules |-> [defaults EXCEPT !.mission = importMission(d, sources, @)],
      report |-> IF sources = <<>>
                 THEN <<"No existing docs were found. Created default rules.">>
                 ELSE <<"Found source file(s):">>
                      \o [i \in 1..Len(sources) |-> sources[i][Len(sources[i])]]
                      \o <<"Imported mission/workflow/commands/done/approvals where detected.">>]

ReportPath == Root \o <<".agentrules", "import-report.md">>

\* variant: the test for an existing rules file always fails
rulesFileExists_never(doc) == FALSE

\* existsSync(rulesFile)
rulesFileExists(doc) == doc.exists

initResult(exit, importExisting, preset, kind) ==
  [cmd |-> "init", importExisting |-> importExisting, preset |-> preset,
   write |-> TRUE, exit |-> exit, log |-> <<message(kind, "init")>>]

\* init [--import] [--preset P]
initCommand(importExisting, preset) ==
  IF preset \notin PRESET_NAMES
  THEN /\ last' = initResult(1, importExisting, preset, "error")
       /\ UNCHANGED <<disk, rulesDoc, existing, content, results, docInput, docOutput>>
  ELSE IF rulesFileExists(rulesDoc)
  THEN /\ last' = initResult(0, importExisting, preset, "already exists")
       /\ UNCHANGED <<disk, rulesDoc, existing, content, results, docInput, docOutput>>
  ELSE LET imported == importRulesFromDocs(disk, createDefaultRules)
           rules == applyTargetPreset(IF importExisting THEN imported.rules
                                      ELSE createDefaultRules, preset)
       IN /\ rulesDoc' = writeRules(rules)
          /\ disk' = IF importExisting
                     THEN Put(disk, ReportPath,
                              imported.report
                                \o (IF preset = "all" THEN <<NL>>
                                    ELSE <<NL, NL, "Applied target preset: ", preset, NL>>))
                     ELSE disk
          /\ last' = initResult(0, importExisting, preset, "created")
          /\ UNCHANGED <<existing, content, results, docInput, docOutput>>

presetResult(exit, presetName, write, kind) ==
  [cmd |-> "preset", importExisting |-> FALSE, preset |-> presetName,
   write |-> write, exit |-> exit, log |-> <<message(kind, "preset")>>]

\* preset apply P [--write]
presetApplyCommand(presetName, write) ==
  LET loaded == loadRules(rulesDoc)
      nextRules == applyTargetPreset(loaded.rules, presetName)
      changed == stringifyRules(loaded.rules) # stringifyRules(nextRules)
  IN IF presetName \notin PRESET_NAMES \/ loaded.error
     THEN /\ last' = presetResult(1, presetName, write, "error")
          /\ UNCHANGED <<disk, rulesDoc, existing, content, results, docInput, docOutput>>
     ELSE IF ~changed \/ ~write
     THEN /\ last' = presetResult(0, presetName, write,
                                  IF ~changed THEN "no changes" ELSE "dry-run complete")
          /\ UNCHANGED <<disk, rulesDoc, existing, content, results, docInput, docOutput>>
     ELSE /\ rulesDoc' = writeRules(nextRules)
          /\ last' = presetResult(0, presetName, write, "updated")
          /\ UNCHANGED <<disk, existing, content, results, docInput, docOutput>>

\* a document with a target outside the registry and a claude path that
\* holds an apostrophe and a backslash
customDoc(path) ==
  [exists |-> TRUE, text |-> YamlText,
   lines |-> <<[indent |-> 0, key |-> "mission", value |-> Str(<<"demo">>)],
               [indent |-> 0, key |-> "targets", value |-> NoValue],
               [indent |-> 2, key |-> "claude", value |-> NoValue],
               [indent |-> 4, key |-> "path", value |-> Str(path)],
               [indent |-> 2, key |-> "custom", value |-> NoValue],
               [indent |-> 4, key |-> "enabled", value |-> Bool(FALSE)],
               [indent |-> 4, key |-> "path", value |-> Str(<<"docs", "CUSTOM.md">>)]>>]

RulesDocs ==
  {MissingDoc, userDoc(2, TRUE, <<"CLAUDE.md">>), userDoc(2, FALSE, <<"docs", "C.md">>),
   userDoc(4, FALSE, <<"CLAUDE.md">>), customDoc(<<"docs", "C.md">>),
   customDoc(<<"docs", BS, "it", SQ, "s.md">>)}

RulesDisks ==
  {EmptyMap, Put(EmptyMap, ClaudePath, <<"mine", NL>>),
   Put(EmptyMap, AgentsPath, <<"# Notes", NL, "## Mission", NL, "imported", NL>>)}

\* the explored rules documents are at most this many tokens longer than the
\* default document (a rewritten document can grow with every rewrite)
MaxGrowth == 22

PresetArgs == PRESET_NAMES \cup {"nope"}

RulesInit ==
  /\ rulesDoc \in RulesDocs
  /\ disk \in RulesDisks
  /\ last = NoInvocation
  /\ existing = <<>>
  /\ content = <<>>
  /\ results = <<>>
  /\ docInput = NoDocInput
  /\ docOutput = NotRun

RulesNext ==
  \/ \E i \in BOOLEAN, p \in PresetArgs : initCommand(i, p)
  \/ /\ Len(rulesDoc.text) <= Len(writeRules(createDefaultRules).text) + MaxGrowth
     /\ \E p \in PresetArgs, w \in BOOLEAN : presetApplyCommand(p, w)

SpecRules == RulesInit /\ [][RulesNext]_vars

---------------------------------------------------------------------------
(* Project root: the directory every path of an invocation is resolved in *)

\* path.dirname of an absolute directory: the root directory is its own parent
parentOf(current) == IF Len(current) <= 1 THEN current ELSE dirname(current)

\* the loop of findProjectRoot, from the directory current
RECURSIVE searchUp(_, _, _)
searchUp(d, current, startDir) ==
  IF existsSync(d, resolve(current, RULES_RELATIVE_PATH))
       \/ existsSync(d, resolve(current, <<".git">>))
  THEN current
  ELSE IF parentOf(current) = current THEN resolve(<<"/">>, startDir)
  ELSE searchUp(d, parentOf(current), startDir)

findProjectRoot(d, startDir) == searchUp(d, resolve(<<"/">>, startDir), startDir)

\* a rules file somewhere else than in Root is one that init wrote
DefaultDoc == writeRules(createDefaultRules)

rulesDocOf(d, doc, rootDir) ==
  IF rootDir = Root THEN doc
  ELSE IF existsSync(d, resolve(rootDir, RULES_RELATIVE_PATH)) THEN DefaultDoc
  ELSE MissingDoc

\* runCli for `init` in the directory cwd
runInit(cwd) ==
  LET rootDir == findProjectRoot(filesOf(disk, rulesDoc), cwd)
      rulesFile == resolve(rootDir, RULES_RELATIVE_PATH)
      fileExists == existsSync(filesOf(disk, rulesDoc), rulesFile)
  IN /\ last' = [initResult(0, FALSE, "all", IF fileExists THEN "already exists"
                                              ELSE "created")
                   EXCEPT !.write = ~fileExists]
                  @@ [cwd |-> cwd, rootDir |-> rootDir,
                      events |-> IF fileExists THEN <<>>
                                 ELSE <<[op |-> "write", path |-> rulesFile,
                                         text |-> DefaultDoc.text]>>]
     /\ rulesDoc' = IF ~fileExists /\ rootDir = Root THEN DefaultDoc ELSE rulesDoc
     /\ disk' = IF ~fileExists /\ rootDir # Root
                THEN Put(disk, rulesFile, DefaultDoc.text) ELSE disk
     /\ UNCHANGED <<existing, content, results, docInput, docOutput>>

\* runCli for `sync --target ... --write` in the directory cwd
runSync(cwd, targetSpec) ==
  LET files == filesOf(disk, rulesDoc)
      rootDir == findProjectRoot(files, cwd)
  IN /\ last' = syncResultIn(rootDir, files, rulesDocOf(files, rulesDoc, rootDir),
                             targetSpec, TRUE, FALSE, 0)
                  @@ [cwd |-> cwd, rootDir |-> rootDir]
     /\ disk' = LET after == applyEvents(disk, last'.events)
                IN [p \in DOMAIN after \ {RulesPath} |-> after[p]]
     /\ rulesDoc' = rulesFileAfter(rulesDoc, last'.events)
     /\ UNCHANGED <<existing, content, results, docInput, docOutput>>

StartDirs == {<<"/", "other">>, Root, Root \o <<"apps", "web">>}

GitFile == <<"gitdir: elsewhere", NL>>

RootDisks ==
  {EmptyMap,
   Put(EmptyMap, Root \o <<".git">>, GitFile),
   Put(EmptyMap, Root \o <<"apps", ".git">>, GitFile),
   Put(Put(EmptyMap, Root \o <<".git">>, GitFile),
       Root \o <<"apps", "web", ".agentrules", "rules.yaml">>, DefaultDoc.text)}

RootDocs ==
  {MissingDoc, userDoc(2, TRUE, <<"CLAUDE.md">>), userDoc(2, TRUE, <<"..", "claude.md">>)}

RootTargetSpecs == {<<"claude">>}

RootInit ==
  /\ disk \in RootDisks
  /\ rulesDoc \in RootDocs
  /\ last = NoInvocation @@ [cwd |-> <<"/">>, rootDir |-> <<"/">>]
  /\ existing = <<>>
  /\ content = <<>>
  /\ results = <<>>
  /\ docInput = NoDocInput
  /\ docOutput = NotRun

RootNext ==
  \/ \E cwd \in StartDirs : runInit(cwd)
  \/ \E cwd \in StartDirs, t \in RootTargetSpecs : runSync(cwd, t)

SpecRoot == RootInit /\ [][RootNext]_vars

---------------------------------------------------------------------------
(* Vocabulary of the properties *)

PlanIndexes == 1..Len(last.plans)

\* the files of the project, the rules document among them
Files == filesOf(disk, rulesDoc)

IsPrefix(a, b) == Len(a) <= Len(b) /\ SubSeq(b, 1, Len(a)) = a

\* number of writeFileSync calls of the last invocation on the target file p
Writes(p) ==
  Cardinality({k \in 1..Len(last.events) :
                 last.events[k].op = "write" /\ last.events[k].path = p})

FileText(d, p) == IF p \in DOMAIN d THEN d[p] ELSE <<>>

IsSyncWrite == last.cmd = "sync" /\ last.write /\ last.loaded

\* enabled plans i, j of the last invocation resolve to one path
SharePath(i, j) ==
  /\ i # j
  /\ last.plans[i].enabled /\ last.plans[j].enabled
  /\ last.plans[i].targetPath = last.plans[j].targetPath

\* every enabled plan on the path of plan i wants the text plan i wants
AllSameText(i) ==
  \A j \in PlanIndexes :
    SharePath(i, j) => last.plans[j].desiredText = last.plans[i].desiredText

PassesThroughSymlink(resolved) ==
  \E n \in 1..(Len(resolved) - 1) : SubSeq(resolved, 1, n) \in Symlinks

UnsafePath(p) ==
  \/ p = <<>>
  \/ isAbsolute(p)
  \/ ~IsPrefix(Root, resolve(Root, p))
  \/ PassesThroughSymlink(resolve(Root, p))

\* the document's targets entry for id says `enabled: false`
DocDisables(doc, id) ==
  \E k \in 1..(Len(doc.lines) - 1) :
    /\ doc.lines[k].key = id /\ doc.lines[k].indent > 0
    /\ doc.lines[k + 1].key = "enabled"
    /\ doc.lines[k + 1].indent > doc.lines[k].indent
    /\ doc.lines[k + 1].value = Bool(FALSE)

IsValidHost(h) ==
  /\ Count(h, MarkerBegin) = 1
  /\ Count(h, MarkerEnd) = 1
  /\ indexOf(h, MarkerBegin, 0) < indexOf(h, MarkerEnd, 0)

---------------------------------------------------------------------------
(* Claims *)

\* C1: in `sync --write`, whenever two selected, enabled plans resolve to the
\* same path with differing desired texts, the command exits 1 and performs no
\* disk operation (no mkdir, no backup, no write).
ConflictPreflightAborts ==
  (IsSyncWrite /\ \E i, j \in PlanIndexes :
      SharePath(i, j) /\ last.plans[i].desiredText # last.plans[j].desiredText)
    => (last.exit = 1 /\ last.events = <<>>)

PathSafetyEnforced ==
  \A i \in PlanIndexes :
    /\ ~UnsafePath(last.plans[i].targetPathDisplay)
    /\ IsPrefix(Root, last.plans[i].targetPath)

\* C4: merging the same content a second time returns what the first merge
\* returned, for every host text and content.
MergeIdempotent ==
  Len(results) >= 2 => results[2] = results[1]

\* C5: one merge pass returns a text with exactly one begin marker, exactly one
\* end marker after it, and the trimmed content on the lines between them.
RepairConverges ==
  Len(results) >= 1 =>
    LET r == results[1]
        b == indexOf(r, MarkerBegin, 0)
        e == indexOf(r, MarkerEnd, 0)
    IN /\ Count(r, MarkerBegin) = 1
       /\ Count(r, MarkerEnd) = 1
       /\ b < e
       /\ slice(r, b + 1, e) = <<NL>> \o trim(content) \o <<NL>>

\* C6: when the host holds one begin marker followed by one end marker, the
\* result up to and including the begin marker and from the end marker onward
\* is identical to the host's, and the trimmed content lies between them.
ValidSplicePreservesHost ==
  (Len(results) >= 1 /\ IsValidHost(existing)) =>
    LET r == results[1]
        rb == indexOf(r, MarkerBegin, 0)
        re == indexOf(r, MarkerEnd, 0)
        hb == indexOf(existing, MarkerBegin, 0)
        he == indexOf(existing, MarkerEnd, 0)
    IN /\ rb >= 0 /\ re > rb
       /\ slice(r, 0, rb + 1) = slice(existing, 0, hb + 1)
       /\ slice(r, re, Len(r)) = slice(existing, he, Len(existing))
       /\ slice(r, rb + 1, re) = <<NL>> \o trim(content) \o <<NL>>

\* C7: a `check` that directly follows a `sync --write` that exited 0, with the
\* same target selection, exits 0.
WriteThenCheckInSync ==
  [][(IsSyncWrite /\ last.exit = 0 /\ last'.cmd = "check"
        /\ last'.targetSpec = last.targetSpec)
       => last'.exit = 0]_vars

\* C8: a `check` that loaded the document exits 1 exactly when some selected
\* target whose document entry does not say `enabled: false` wants a text
\* different from the file on disk (a missing file reads as empty), and exits 0
\* otherwise; a target the document disables is never counted as drift.
CheckExitIsDrift ==
  (last.cmd = "check" /\ last.loaded) =>
    /\ last.exit \in {0, 1}
    /\ last.exit = 1 <=>
         \E i \in PlanIndexes :
           /\ ~DocDisables(rulesDoc, last.plans[i].targetId)
           /\ last.plans[i].desiredText # FileText(disk, last.plans[i].targetPath)
    /\ \A i \in PlanIndexes :
         DocDisables(rulesDoc, last.plans[i].targetId) => ~last.plans[i].changed

DisabledNeverWritten ==
  IsSyncWrite =>
    \A i \in PlanIndexes :
      DocDisables(rulesDoc, last.plans[i].targetId) =>
        /\ ~last.plans[i].enabled
        /\ (\A j \in PlanIndexes :
              last.plans[j].targetPath = last.plans[i].targetPath => j = i)
             => Writes(last.plans[i].targetPath) = 0

\* C11: when neither marker occurs in the host, the result is the host without
\* its trailing whitespace, then one blank line if that text is non-empty, then
\* the begin marker, the trimmed content and the end marker, each on a line of
\* its own, with a final newline; for an empty host it is exactly the block.
MissingStateAppends ==
  (Len(results) >= 1 /\ Count(existing, MarkerBegin) = 0
     /\ Count(existing, MarkerEnd) = 0) =>
    LET host == trimEnd(existing)
        block == <<MarkerBegin, NL>> \o trim(content) \o <<NL, MarkerEnd, NL>>
    IN /\ host # <<>> => results[1] = host \o <<NL, NL>> \o block
       /\ host = <<>> => results[1] = block

\* C11 witness: a marker-free host with text and trailing whitespace got a block
MissingStateAppended ==
  /\ Len(results) >= 1
  /\ Count(existing, MarkerBegin) = 0 /\ Count(existing, MarkerEnd) = 0
  /\ trimEnd(existing) # <<>> /\ trimEnd(existing) # existing
  /\ trim(content) # <<>>

\* C12: merging "new" into the host "<begin>\nold\n" (no end marker) returns
\* exactly "<begin>\nnew\n<end>\n".
MissingEndExampleRepaired ==
  (Len(results) >= 1 /\ existing = ExampleHost /\ content = ExampleContent) =>
    results[1] = <<MarkerBegin, NL, "new", NL, MarkerEnd, NL>>

\* C13: for every valid document, normalizing what the parser reads from the
\* serialized normal form gives the normal form again.
RoundTripIsIdentity ==
  docOutput.op = "roundtrip" => docOutput.again = docOutput.rules

\* C15: parsing "version: 2 # note\nmission: 'It''s ok'" yields version = the
\* number 2 and mission = "It's ok".
ExampleParsesCommentAndEscape ==
  (docOutput.op = "parse" /\ docInput.kind = "text" /\ docInput.lines = ExampleText) =>
    /\ Prop(docOutput.value, "version") = Num(<<"2">>)
    /\ Prop(docOutput.value, "mission") = Str(<<"It", SQ, "s", " ", "ok">>)

\* C16: normalizeRules keeps every key of the input's commands map other than
\* lint, test and build that has a non-blank string value, with its value, and
\* lint, test and build exist.
CustomCommandsSurvive ==
  docOutput.op = "normalize" =>
    LET commands == Prop(docInput.value, "commands")
    IN /\ {"lint", "test", "build"} \subseteq DOMAIN docOutput.rules.commands
       /\ commands.kind = "obj" =>
            \A k \in DOMAIN commands.f \ {"lint", "test", "build"} :
              (commands.f[k].kind = "str" /\ trim(commands.f[k].s) # <<>>) =>
                /\ k \in DOMAIN docOutput.rules.commands
                /\ docOutput.rules.commands[k] = commands.f[k].s

\* C17: parseRulesText raises no exception on any text; a text JSON.parse
\* accepts yields that value, and a line the scanner cannot interpret leaves
\* the keys parsed from the lines before it as they are.
ParserNeverThrows ==
  docOutput.op = "parse" =>
    /\ ~docOutput.threw
    /\ docInput.kind = "json" => docOutput.value = docInput.value
    /\ docInput.kind = "text" =>
         \A i \in 1..Len(docInput.lines) :
           docInput.lines[i].key = "" =>
             parseState(scanLines(SubSeq(docInput.lines, 1, i))).data
               = parseState(scanLines(SubSeq(docInput.lines, 1, i - 1))).data

\* C17 witness: a text that opens with an indented line outside any section
\* and holds a line the scanner cannot interpret was parsed to a non-empty tree
ParsedMalformedText ==
  /\ docOutput.op = "parse" /\ docInput.kind = "text"
  /\ Len(docInput.lines) >= 3
  /\ docInput.lines[1].indent > 0
  /\ \E i \in 2..Len(docInput.lines) : docInput.lines[i].key = ""
  /\ docOutput.value # Obj(EmptyMap)

\* C18: for every input value normalizeRules returns a document with a numeric
\* version, a non-blank mission, non-empty lists of strings workflow and done,
\* commands lint, test and build, approvals with a string mode and a list of
\* string notes, and a targets map.
NormalizerFullyPopulates ==
  docOutput.op = "normalize" =>
    LET r == docOutput.rules
        IsStrings(list) == \A i \in 1..Len(list) : list[i] \in Seq(STRING)
    IN /\ IsDigits(r.version)
       /\ r.mission \in Seq(STRING) /\ trim(r.mission) # <<>>
       /\ Len(r.workflow) > 0 /\ IsStrings(r.workflow)
       /\ Len(r.done) > 0 /\ IsStrings(r.done)
       /\ {"lint", "test", "build"} \subseteq DOMAIN r.commands
       /\ \A n \in DOMAIN r.commands : r.commands[n] \in Seq(STRING)
       /\ r.approvals.mode \in Seq(STRING) /\ IsStrings(r.approvals.notes)
       /\ AdapterIds \subseteq DOMAIN r.targets

\* C18 witness: an ill-typed tree (mission a boolean, workflow an empty list)
\* and a value that is no tree at all were normalized
NormalizedIllTyped ==
  /\ docOutput.op = "normalize"
  /\ \/ docInput.value = Null
     \/ /\ Prop(docInput.value, "mission").kind = "bool"
        /\ Prop(docInput.value, "workflow") = List(<<>>)
        /\ docOutput.rules.workflow = createDefaultRules.workflow

\* C19: after normalisation the targets map holds every known adapter id, with
\* enabled = true and the adapter's default path when the input gives no entry,
\* and every unknown id of the input, with the synthesized path when the input
\* gives it no path; every target has a boolean enabled flag and a non-blank
\* path.
TargetsInvariant ==
  docOutput.op = "normalize" =>
    LET targets == docOutput.rules.targets
        given == Prop(docInput.value, "targets")
        ids == IF given.kind = "obj" THEN DOMAIN given.f ELSE {}
    IN /\ AdapterIds \cup ids \subseteq DOMAIN targets
       /\ given.kind # "list" => DOMAIN targets = AdapterIds \cup ids
       /\ \A id \in AdapterIds :
            Prop(given, id) = Undefined =>
              targets[id] = [enabled |-> TRUE, path |-> ADAPTERS_BY_ID(id).defaultPath]
       /\ \A id \in ids \ AdapterIds :
            (given.f[id].kind # "str" /\ Prop(given.f[id], "path").kind # "str") =>
              targets[id].path = syntheticPath(id)
       /\ \A id \in DOMAIN targets :
            targets[id].enabled \in BOOLEAN /\ trim(targets[id].path) # <<>>

\* C14: when the document has a schema error (here: a targets.<id>.path that
\* is present but blank), `sync` and `check` exit 1, the blank value is not
\* replaced by the default, and no disk operation happens.
SchemaErrorsAreFatal ==
  (last.cmd \in {"sync", "check"} /\ rulesDoc.exists
     /\ \E k \in 1..Len(rulesDoc.lines) :
          /\ rulesDoc.lines[k].key = "path" /\ rulesDoc.lines[k].indent > 0
          /\ rulesDoc.lines[k].value.kind = "str"
          /\ trim(rulesDoc.lines[k].value.s) = <<>>)
    => (last.exit = 1 /\ last.plans = <<>> /\ last.events = <<>>)

\* C20: when the mission key is absent from an otherwise valid document, a
\* `sync` with a valid selection logs a warning naming the key, renders with
\* the default mission and exits 0.
MissingKeyWarns ==
  (last.cmd = "sync" /\ last.loaded /\ rulesDoc.exists
     /\ \A k \in 1..Len(rulesDoc.lines) : rulesDoc.lines[k].key # "mission")
    => /\ last.exit = 0
       /\ \E n \in 1..Len(last.log) : last.log[n] = message("warning", "mission")
       /\ loadRules(rulesDoc).rules.mission = DefaultMission

\* C21: when .agentrules/rules.yaml does not exist, sync (with or without
\* --write) and check exit with code 1 and no file is created or modified;
\* more generally a command that ends with a fatal error raised before the
\* write loop (bad arguments, missing document, conflicting outputs) leaves
\* every file as it was.
MissingDocIsFatal ==
  [][/\ ~rulesDoc.exists => last'.exit = 1 /\ disk' = disk
     /\ last'.exit = 1 /\ ~last'.failed => disk' = disk /\ last'.events = <<>>]_vars

\* C21 witness: sync --write was run without a rules document and failed
MissingDocFailed ==
  /\ ~rulesDoc.exists
  /\ last.cmd = "sync" /\ last.write
  /\ last.exit = 1
  /\ last.log = <<message("error", "sync")>>

\* C25: when a disk operation of the write loop fails while the k-th unique
\* plan is being written, sync exits 1, the k-1 files written before keep
\* their new content, and the file of the k-th and of every later plan is as
\* it was before the invocation.
WriteLoopStopsAtFailure ==
  [][last'.cmd = "sync" /\ last'.failed =>
       LET unique == getUniqueWritePlans(last'.plans).uniquePlans
           written == Cardinality({i \in 1..Len(last'.events) :
                                     last'.events[i].op = "write"})
       IN /\ last'.exit = 1
          /\ written < Len(unique)
          /\ \A j \in 1..Len(unique) :
               IF j <= written
               THEN /\ existsSync(Files', unique[j].targetPath)
                    /\ Files'[unique[j].targetPath] = unique[j].desiredText
               ELSE /\ existsSync(Files', unique[j].targetPath)
                         = existsSync(Files, unique[j].targetPath)
                    /\ FileText(Files', unique[j].targetPath)
                         = FileText(Files, unique[j].targetPath)]_vars

\* C25 witness: the second plan failed; one file was written, another was not
WriteLoopFailedMidway ==
  /\ last.cmd = "sync" /\ last.failed /\ last.exit = 1
  /\ \E i \in 1..Len(last.events) :
       /\ last.events[i].op = "write"
       /\ FileText(Files, last.events[i].path) = last.events[i].text
  /\ \E j \in PlanIndexes :
       /\ last.plans[j].enabled /\ last.plans[j].changed
       /\ FileText(Files, last.plans[j].targetPath) = last.plans[j].currentText
       /\ existsSync(Files, last.plans[j].targetPath) = last.plans[j].exists

\* C26: in sync --write --backup every written plan whose file existed gets a
\* backup sibling with exactly the prior content, written before the file is
\* overwritten; a backup is made only for the file of an enabled, changed
\* target that existed; --backup without --write exits 1 and writes nothing.
BackupBeforeOverwrite ==
  [][last'.cmd = "sync" /\ last'.backup =>
       LET events == last'.events
           plans == last'.plans
           Backed(i) == plans[i].enabled /\ plans[i].changed
                          /\ existsSync(disk, plans[i].targetPath)
       IN /\ ~last'.write => last'.exit = 1 /\ disk' = disk
          /\ last'.write /\ last'.exit = 0 =>
               /\ \A i \in 1..Len(plans) : Backed(i) =>
                    \E m \in 1..Len(events), n \in 1..Len(events) :
                      /\ m < n
                      /\ events[m] = [op |-> "backup",
                                      path |-> backupPath(plans[i].targetPath),
                                      text |-> disk[plans[i].targetPath]]
                      /\ events[n].op = "write"
                      /\ events[n].path = plans[i].targetPath
                      /\ disk'[backupPath(plans[i].targetPath)]
                           = disk[plans[i].targetPath]
               /\ \A m \in 1..Len(events) : events[m].op = "backup" =>
                    \E i \in 1..Len(plans) :
                      Backed(i) /\ events[m].path = backupPath(plans[i].targetPath)]_vars

\* C26 witness: one invocation overwrote an existing file, with a backup, and
\* created another file, without one
BackupWritten ==
  /\ last.cmd = "sync" /\ last.write /\ last.backup /\ last.exit = 0
  /\ \E i \in PlanIndexes :
       /\ last.plans[i].changed /\ last.plans[i].exists
       /\ existsSync(disk, backupPath(last.plans[i].targetPath))
       /\ disk[backupPath(last.plans[i].targetPath)] = last.plans[i].currentText
       /\ disk[last.plans[i].targetPath] = last.plans[i].desiredText
  /\ \E i \in PlanIndexes :
       /\ last.plans[i].changed /\ ~last.plans[i].exists
       /\ ~existsSync(disk, backupPath(last.plans[i].targetPath))

\* C27: in every plan list built for sync or check, a disabled target's plan
\* has desiredText = currentText and changed = false; an enabled target's
\* plan has changed = true exactly when desiredText differs from currentText;
\* currentText is the file's content (empty when there is no file); the
\* desiredText of a fully-managed adapter is the trimmed rendered text plus
\* one newline, that of a marker-managed adapter the marker merge of the
\* current content with the trimmed rendered text.
PlansAreConsistent ==
  [][\A rules \in {loadRules(rulesDoc).rules} :
     \A i \in 1..Len(last'.plans) :
     \A plan \in {last'.plans[i]} :
     \A adapter \in {ADAPTERS_BY_ID(plan.targetId)} :
     \A rendered \in {trim(render(adapter, rules))} :
       /\ plan.currentText = FileText(Files, plan.targetPath)
       /\ plan.exists = existsSync(Files, plan.targetPath)
       /\ ~plan.enabled => plan.desiredText = plan.currentText /\ ~plan.changed
       /\ plan.enabled =>
            /\ plan.changed = (plan.desiredText # plan.currentText)
            /\ adapter.management = "full" =>
                 plan.desiredText = rendered \o <<NL>>
            /\ adapter.management = "marker" =>
                 plan.desiredText =
                   upsertManagedSection(plan.currentText, rendered,
                                        adapter.markerBegin, adapter.markerEnd)]_vars

\* C27 witness: one plan list holds a disabled plan, an enabled fully-managed
\* plan that is unchanged, and an enabled marker-managed plan that is changed
PlansOfEveryKind ==
  /\ \E i \in PlanIndexes : ~last.plans[i].enabled /\ ~last.plans[i].changed
  /\ \E i \in PlanIndexes :
       /\ last.plans[i].enabled /\ last.plans[i].changed
       /\ ADAPTERS_BY_ID(last.plans[i].targetId).management = "marker"
       /\ last.plans[i].currentText # <<>>
  /\ \E i \in PlanIndexes :
       /\ last.plans[i].enabled /\ ~last.plans[i].changed
       /\ ADAPTERS_BY_ID(last.plans[i].targetId).management = "full"

\* C30: sync --target S --write writes only files that are the resolved path
\* of a target that is in S, enabled and changed (and their backup siblings
\* with --backup); the file of a target outside S, and the file of a selected
\* but unchanged target, is not written; sync and check never modify the
\* rules document.
SelectionFrame ==
  [][\A rules \in {loadRules(rulesDoc).rules} :
     \A plans \in {last'.plans} :
       LET Written(p) == \E n \in 1..Len(last'.events) :
                           /\ last'.events[n].op \in {"write", "backup"}
                           /\ last'.events[n].path = p
           Selected(id) == \E i \in 1..Len(plans) : plans[i].targetId = id
           fileOf(id) == resolveInRoot(Root, getTargetConfig(rules, ADAPTERS_BY_ID(id)).path)
       IN /\ rulesDoc' = rulesDoc
          /\ last'.cmd = "sync" /\ last'.write /\ last'.loaded =>
               /\ \A n \in 1..Len(last'.events) :
                    last'.events[n].op \in {"write", "backup"} =>
                      \E i \in 1..Len(plans) :
                        /\ plans[i].enabled /\ plans[i].changed
                        /\ \/ last'.events[n].path = plans[i].targetPath
                           \/ /\ last'.backup
                              /\ last'.events[n].path = backupPath(plans[i].targetPath)
               /\ \A id \in AdapterIds : ~Selected(id) => ~Written(fileOf(id))
               /\ \A i \in 1..Len(plans) :
                    ~plans[i].changed => ~Written(plans[i].targetPath)]_vars

\* the lines a positional comparison emits, index by index, without a cap
positional(oldLines, newLines) ==
  LET count == IF Len(oldLines) > Len(newLines) THEN Len(oldLines) ELSE Len(newLines)
  IN flatten([index \in 1..count |->
                IF index > Len(newLines) THEN <<<<"-">> \o oldLines[index]>>
                ELSE IF index > Len(oldLines) THEN <<<<"+">> \o newLines[index]>>
                ELSE IF oldLines[index] = newLines[index] THEN <<>>
                ELSE <<<<"-">> \o oldLines[index], <<"+">> \o newLines[index]>>],
             1, count)

\* C28: renderSimpleDiff returns the empty string for equal texts; otherwise,
\* after the two header lines, it emits the -/+ lines of the positional
\* comparison in index order, never more than 120 of them, and appends the
\* truncation marker exactly when 120 were emitted, with nothing after it.
DiffIsPositionalAndCapped ==
  docOutput.op = "diff" =>
    LET output == docOutput.output
        full == positional(split(normalizeNewlines(docInput.current)),
                           split(normalizeNewlines(docInput.desired)))
        marked == output # <<>> /\ output[Len(output)] = <<"... diff truncated ...">>
        emitted == SubSeq(output, 3, Len(output) - (IF marked THEN 1 ELSE 0))
    IN IF docInput.current = docInput.desired THEN output = <<>>
       ELSE /\ SubSeq(output, 1, 2) = <<<<"--- current">>, <<"+++ desired">>>>
            /\ Len(emitted) <= 120
            /\ marked <=> Len(emitted) = 120
            /\ Len(emitted) <= Len(full)
            /\ emitted = SubSeq(full, 1, Len(emitted))
            /\ ~marked => emitted = full

\* C28 witness: a diff cut at the cap, with differing lines left unreported
DiffTruncated ==
  /\ docOutput.op = "diff"
  /\ Len(docOutput.output) = 123
  /\ docOutput.output[123] = <<"... diff truncated ...">>
  /\ Len(split(docInput.current)) > 62
  /\ Len(split(docInput.desired)) > 62

\* C29: for any host text and any managed content, content holding a sentinel
\* included, the third application of the marker merge with the same content
\* returns what the second returned: merge^3(h, c) = merge^2(h, c).
MergeConvergesInTwo ==
  Len(results) >= 3 => results[3] = results[2]

(* C22: init never overwrites.  When the rules file exists, init with valid
   options (with or without --import, any preset) exits 0, leaves the rules
   file as it was and writes no import report (nothing on disk changes).
   Every init step on an existing file being a no-op, the file keeps what the
   first successful init or the user wrote through any sequence of inits. *)
InitNeverOverwrites ==
  [][(last'.cmd = "init" /\ rulesDoc.exists /\ last'.preset \in PRESET_NAMES)
       => (last'.exit = 0 /\ rulesDoc' = rulesDoc /\ disk' = disk)]_vars

\* init --import --preset copilot ran on an existing rules file that holds
\* something else than that init would have written
InitOnExistingFile ==
  /\ last.cmd = "init" /\ last.importExisting /\ last.preset = "copilot"
  /\ last.exit = 0
  /\ rulesDoc.exists
  /\ rulesDoc.text # writeRules(applyTargetPreset(createDefaultRules, "copilot")).text
  /\ ReportPath \notin DOMAIN disk

(* C23: preset application.  After a successful preset apply P --write every
   built-in target of the rules file is enabled exactly when its id belongs
   to preset P, every target has the path it had before, and the entries of
   targets outside the registry are what they were; without --write the rules
   file is not modified; applying the same preset again changes nothing.
   "Before" and "after" are the rules as loaded from the file. *)
PresetApplyIsExact ==
  [][(last'.cmd = "preset" /\ last'.exit = 0) =>
       \A before \in {loadRules(rulesDoc).rules} :
         \A after \in {loadRules(rulesDoc').rules} :
           /\ ~last'.write => rulesDoc' = rulesDoc
           /\ last'.write =>
                /\ \A id \in AdapterIds :
                     /\ id \in DOMAIN after.targets
                     /\ after.targets[id].enabled
                          = (id \in getPresetTargetIds(last'.preset))
                     /\ id \in DOMAIN before.targets
                          => after.targets[id].path = before.targets[id].path
                /\ \A id \in (DOMAIN before.targets) \ AdapterIds :
                     /\ id \in DOMAIN after.targets
                     /\ after.targets[id] = before.targets[id]
           /\ (last.cmd = "preset" /\ last.exit = 0 /\ last.write
                 /\ last.preset = last'.preset) => rulesDoc' = rulesDoc]_vars

(* C24: project-root resolution.  For every start directory the upward
   search ends and returns the nearest directory, from the start directory
   up through its ancestors, that holds .git or .agentrules/rules.yaml, and
   the start directory when none does; every path of the invocation is
   resolved in that root, so every file a command writes lies under the root
   and, when the command runs in a subdirectory of the root, not under that
   subdirectory. *)
ProjectRootResolution ==
  [][\A files \in {Files} :
       LET cwd == last'.cwd
           marked == {n \in 1..Len(cwd) :
                        \/ SubSeq(cwd, 1, n) \o RULES_RELATIVE_PATH \in DOMAIN files
                        \/ SubSeq(cwd, 1, n) \o <<".git">> \in DOMAIN files}
       IN /\ last'.rootDir = IF marked = {} THEN cwd ELSE SubSeq(cwd, 1, Max(marked))
          /\ \A i \in 1..Len(last'.events) :
               last'.events[i].op \in {"write", "backup"} =>
                 /\ IsPrefix(last'.rootDir, last'.events[i].path)
                 /\ cwd # last'.rootDir => ~IsPrefix(cwd, last'.events[i].path)]_vars

====
